---------------------------- MODULE Spec2Model ----------------------------
(***************************************************************************)
(* A model of the PropertyIQ ATTOM backend (src/main.py): the safe         *)
(* accessors, the price estimator, the record normalizer, the concurrent   *)
(* per-ZIP fetch of the search endpoint and the property-detail lookup.    *)
(*                                                                         *)
(* Representation.                                                         *)
(*  - A parsed JSON / Python value is a tagged record: JNull, JStr, JNum,  *)
(*    JMap, JList.                                                         *)
(*  - A Python str is a sequence of one-character strings, so that         *)
(*    lower(), upper(), strip() and the `in` substring test are computed.  *)
(*    Dictionary keys and the literals the program only compares for       *)
(*    equality (property_type, ZIP codes) are plain strings.               *)
(*  - A Python float f is held as the integer 2*f (one binary fractional   *)
(*    digit: whole and half values).  Fl(n) is the float of the integer n. *)
(*  - A function that can raise returns an outcome: Ret(v) or Raise.       *)
(***************************************************************************)
EXTENDS Integers, Sequences, FiniteSets, TLC

\* ------------------------------------------------------------ values

JNull == [t |-> "null"]
JStr(s) == [t |-> "str", s |-> s]
JNum(x2) == [t |-> "num", x2 |-> x2]
JMap(m) == [t |-> "map", m |-> m]
JList(l) == [t |-> "list", l |-> l]

\* float('inf'), which json.loads gives for a literal such as 1e999, and an
\* int beyond the range of a float, such as 10**400.
JInf == [t |-> "inf"]
JHuge == [t |-> "huge"]

\* The float of an integer, and of an integer and a half.
Fl(n) == 2 * n
JInt(n) == JNum(Fl(n))

\* {} : the dictionary with no key.
JEmpty == JMap([k \in {} |-> JNull])

Ret(v) == [k |-> "ret", v |-> v]
Raise == [k |-> "raise"]

\* Python truthiness (`if obj`, `not obj`).
Truthy(v) ==
    CASE v.t = "null" -> FALSE
      [] v.t = "str" -> v.s # <<>>
      [] v.t = "num" -> v.x2 # 0
      [] v.t = "map" -> DOMAIN v.m # {}
      [] v.t = "list" -> v.l # <<>>
      [] v.t \in {"inf", "huge"} -> TRUE

\* isinstance(v, dict)
IsDict(v) == v.t = "map"

\* d.get(key, default) on a dict d.  On any other value the attribute
\* lookup raises AttributeError: callers test IsDict first.
DictGet(d, key, default) == IF key \in DOMAIN d.m THEN d.m[key] ELSE default

\* ----------------------------------------------------------- strings

LowerLetters ==
    <<"a","b","c","d","e","f","g","h","i","j","k","l","m",
      "n","o","p","q","r","s","t","u","v","w","x","y","z">>
UpperLetters ==
    <<"A","B","C","D","E","F","G","H","I","J","K","L","M",
      "N","O","P","Q","R","S","T","U","V","W","X","Y","Z">>

IndexIn(c, letters) ==
    IF \E i \in DOMAIN letters : letters[i] = c
    THEN CHOOSE i \in DOMAIN letters : letters[i] = c
    ELSE 0

\* str.upper(), str.lower()
StrUpper(s) ==
    [i \in DOMAIN s |->
        IF IndexIn(s[i], LowerLetters) # 0 THEN UpperLetters[IndexIn(s[i], LowerLetters)] ELSE s[i]]
StrLower(s) ==
    [i \in DOMAIN s |->
        IF IndexIn(s[i], UpperLetters) # 0 THEN LowerLetters[IndexIn(s[i], UpperLetters)] ELSE s[i]]

Whitespace == {" ", "\t", "\n"}

RECURSIVE LStrip(_)
LStrip(s) == IF s # <<>> /\ Head(s) \in Whitespace THEN LStrip(Tail(s)) ELSE s
RECURSIVE RStrip(_)
RStrip(s) ==
    IF s # <<>> /\ s[Len(s)] \in Whitespace THEN RStrip(SubSeq(s, 1, Len(s) - 1)) ELSE s
\* str.strip()
StrStrip(s) == RStrip(LStrip(s))

\* `p in s` on two strings
Contains(s, p) ==
    \E i \in 0..(Len(s) - Len(p)) : SubSeq(s, i + 1, i + Len(p)) = p

Digits == <<"0","1","2","3","4","5","6","7","8","9">>

RECURSIVE DigitsVal(_)
DigitsVal(s) ==
    IF s = <<>> THEN 0 ELSE 10 * DigitsVal(SubSeq(s, 1, Len(s) - 1)) + (IndexIn(s[Len(s)], Digits) - 1)

AllDigits(s) == s # <<>> /\ \A i \in DOMAIN s : IndexIn(s[i], Digits) # 0

\* The sign and the unsigned rest of a stripped numeric literal.
SignOf(s) == IF s # <<>> /\ Head(s) = "-" THEN -1 ELSE 1
Unsigned(s) == IF s # <<>> /\ Head(s) \in {"-", "+"} THEN Tail(s) ELSE s

\* int(str): an optionally signed run of digits, blanks around it allowed;
\* anything else is a ValueError.
ParseInt(s) ==
    LET u == Unsigned(StrStrip(s)) IN
    IF AllDigits(u) THEN Ret(SignOf(StrStrip(s)) * DigitsVal(u)) ELSE Raise

\* float(str), on the literals the model's records use: digits, optionally
\* followed by ".0" or ".5".  The result is the float (twice the value).
ParseFloat(s) ==
    LET st == StrStrip(s)
        u == Unsigned(st)
        dot == IndexIn(".", u)
        whole == IF dot = 0 THEN u ELSE SubSeq(u, 1, dot - 1)
        frac == IF dot = 0 THEN <<>> ELSE SubSeq(u, dot + 1, Len(u))
    IN  IF AllDigits(whole) /\ frac \in {<<>>, <<"0">>, <<"5">>}
        THEN Ret(SignOf(st) * (Fl(DigitsVal(whole)) + (IF frac = <<"5">> THEN 1 ELSE 0)))
        ELSE Raise

\* -------------------------------------------------- the safe accessors

RECURSIVE Walk(_, _)
\* The loop of safe_get: Ret(value) at the end of the path, Raise standing
\* for the early `return default`.
Walk(value, keys) ==
    IF keys = <<>> THEN Ret(value)
    ELSE IF IsDict(value) /\ Head(keys) \in DOMAIN value.m
         THEN Walk(value.m[Head(keys)], Tail(keys))
         ELSE Raise

\* safe_get(obj, path, default); path is the list path.split('.').
safe_get(obj, path, default) ==
    IF ~Truthy(obj) THEN default
    ELSE LET w == Walk(obj, path) IN
         IF w.k = "raise" THEN default
         ELSE IF w.v # JNull /\ w.v # JStr(<<>>) THEN w.v ELSE default

\* int() truncates a float toward zero.
TruncHalf(x2) == IF x2 >= 0 THEN x2 \div 2 ELSE -((-x2) \div 2)

\* safe_int raises: int() of an infinite float is an OverflowError, which
\* `except (ValueError, TypeError)` does not catch.
safe_int_raises(value) == value.t = "inf"

\* safe_int(value, default), where it returns: int() of a dict or a list is
\* a TypeError and int() of a malformed string a ValueError, both caught.
safe_int(value, default) ==
    CASE value.t = "null" -> default
      [] value.t = "num" -> TruncHalf(value.x2)
      [] value.t = "str" -> (LET p == ParseInt(value.s) IN IF p.k = "ret" THEN p.v ELSE default)
      [] value.t \in {"map", "list"} -> default

\* safe_float raises: float() of an int beyond the range of a float is an
\* OverflowError, which `except (ValueError, TypeError)` does not catch.
safe_float_raises(value) == value.t = "huge"

\* safe_float(value, default), where it returns.
safe_float(value, default) ==
    CASE value.t = "null" -> default
      [] value.t = "num" -> value.x2
      [] value.t = "str" -> (LET p == ParseFloat(value.s) IN IF p.k = "ret" THEN p.v ELSE default)
      [] value.t \in {"map", "list"} -> default

\* ------------------------------------------------ the type classifier

\* type_mapping, in the order of the dict: <<pattern, category>>.
type_mapping ==
    << <<<<"d","e","t","a","c","h","e","d">>, "single_family">>,
       <<<<"s","i","n","g","l","e"," ","f","a","m","i","l","y">>, "single_family">>,
       <<<<"s","i","n","g","l","e","_","f","a","m","i","l","y">>, "single_family">>,
       <<<<"c","o","n","d","o","m","i","n","i","u","m">>, "condo">>,
       <<<<"c","o","n","d","o">>, "condo">>,
       <<<<"t","o","w","n","h","o","u","s","e">>, "townhouse">>,
       <<<<"t","o","w","n","h","o","m","e">>, "townhouse">>,
       <<<<"d","u","p","l","e","x">>, "multi_family">>,
       <<<<"t","r","i","p","l","e","x">>, "multi_family">>,
       <<<<"f","o","u","r","p","l","e","x">>, "multi_family">>,
       <<<<"a","p","a","r","t","m","e","n","t">>, "apartment">>,
       <<<<"m","a","n","u","f","a","c","t","u","r","e","d">>, "manufactured">>,
       <<<<"m","o","b","i","l","e">>, "manufactured">> >>

\* A classifier in which the last matching entry wins: C12 tells it from
\* the code's first match.
last_match_type(raw_type) ==
    IF raw_type = <<>> THEN "unknown"
    ELSE LET lowered == StrStrip(StrLower(raw_type))
             hits == {i \in DOMAIN type_mapping : Contains(lowered, type_mapping[i][1])}
         IN  IF hits = {} THEN "single_family"
             ELSE type_mapping[CHOOSE i \in hits : \A j \in hits : j <= i][2]

\* normalize_property_type(raw_type), raw_type a str.
normalize_property_type(raw_type) ==
    IF raw_type = <<>> THEN "unknown"
    ELSE LET lowered == StrStrip(StrLower(raw_type))
             hits == {i \in DOMAIN type_mapping : Contains(lowered, type_mapping[i][1])}
         IN  IF hits = {} THEN "single_family"
             ELSE type_mapping[CHOOSE i \in hits : \A j \in hits : i <= j][2]

\* ------------------------------------------------- the price estimator

MinPrice == 100000
MaxPrice == 2000000
FallbackPrice == 350000
DefaultBaseValue == 300000
ReferenceYear == 2024
GenericUnitPrice == 160
SqftPerBedroom == 400
SqftPerBathroom == 150
LargeHomeSqft == 3000
SmallHomeSqft == 1000

TX == <<"T","X">>
CA == <<"C","A">>
FL == <<"F","L">>
NY == <<"N","Y">>
NA == <<"N","/","A">>

\* state_base_prices.get(state, {...}): the per-type prices of a state.
state_prices(state) ==
    CASE state = JStr(TX) -> [condo |-> 200, single_family |-> 180, townhouse |-> 190]
      [] state = JStr(CA) -> [condo |-> 400, single_family |-> 350, townhouse |-> 380]
      [] state = JStr(FL) -> [condo |-> 250, single_family |-> 220, townhouse |-> 240]
      [] state = JStr(NY) -> [condo |-> 450, single_family |-> 300, townhouse |-> 350]
      [] OTHER -> [condo |-> 180, single_family |-> 160, townhouse |-> 170]

\* state_prices.get(property_type, 160)
base_price_per_sqft(state, property_type) ==
    IF property_type \in DOMAIN state_prices(state)
    THEN state_prices(state)[property_type]
    ELSE GenericUnitPrice

\* base_value, a float.
base_value(bedrooms, bathrooms, square_feet, unit_price) ==
    IF square_feet > 0 THEN Fl(square_feet * unit_price)
    ELSE IF bedrooms > 0
         THEN (Fl(bedrooms * SqftPerBedroom) + bathrooms * SqftPerBathroom) * unit_price
         ELSE Fl(DefaultBaseValue)

\* The multipliers, in hundredths (1.15 is 115).  0 stands for "no
\* adjustment": the code leaves multiplier untouched.
age_multiplier(year_built) ==
    IF year_built > 0
    THEN LET age == ReferenceYear - year_built IN
         IF age < 5 THEN 115 ELSE IF age < 15 THEN 105 ELSE IF age > 50 THEN 85 ELSE 0
    ELSE 0

size_multiplier(square_feet) ==
    IF square_feet > LargeHomeSqft THEN 120
    ELSE IF square_feet < SmallHomeSqft THEN 80 ELSE 0

bedroom_multiplier(bedrooms) == IF bedrooms >= 4 THEN 110 ELSE 0
bathroom_multiplier(bathrooms) == IF bathrooms >= Fl(3) THEN 105 ELSE 0

Austin == <<"a","u","s","t","i","n">>
Dallas == <<"d","a","l","l","a","s">>
Houston == <<"h","o","u","s","t","o","n">>
SanAntonio == <<"s","a","n"," ","a","n","t","o","n","i","o">>

\* city_multipliers.get(city.lower(), 1.0), in hundredths.
city_multiplier(city) ==
    LET key == StrLower(city) IN
    CASE key = Austin -> 120
      [] key = Dallas -> 115
      [] key = Houston -> 110
      [] key = SanAntonio -> 100
      [] OTHER -> 100

\* Exact arithmetic on base_value * multiplier.  A value is i + f / FracDen
\* with 0 <= f < FracDen; FracDen is a common denominator of every product
\* the estimator can form (a half, and one factor per adjustment).  `exact`
\* records that only 1.0 has been multiplied in so far.
FracDen == 2 * 20 * 5 * 10 * 20 * 20

RECURSIVE Gcd(_, _)
Gcd(a, b) == IF b = 0 THEN a ELSE Gcd(b, a % b)

OfFloat(x2) == [i |-> x2 \div 2, f |-> (x2 % 2) * (FracDen \div 2), exact |-> TRUE]

\* v * (pct / 100); pct = 0 multiplies nothing in.
MulPct(v, pct) ==
    IF pct = 0 THEN v
    ELSE LET g == Gcd(pct, 100)
             a == pct \div g
             b == 100 \div g
             t == v.i * a
             nf == (t % b) * (FracDen \div b) + (v.f * a) \div b
         IN  [i |-> (t \div b) + (nf \div FracDen), f |-> nf % FracDen,
              exact |-> v.exact /\ pct = 100]

\* int(base_value * multiplier).  int() truncates toward zero.  The product
\* is an IEEE-754 double: when the exact product is a whole number n the
\* double is n or a neighbour of n, so int() gives n or the integer next to
\* it on the side of zero; `slack` (0 or 1) is which.  A product that is not
\* whole is at least 1/FracDen away from a whole number, far more than the
\* rounding error of a double below 2^31, and truncates as the exact value.
IntOf(v, slack) ==
    IF v.f = 0
    THEN IF v.exact \/ v.i = 0 THEN v.i
         ELSE IF v.i > 0 THEN v.i - slack ELSE v.i + slack
    ELSE IF v.i >= 0 THEN v.i ELSE v.i + 1

Max2(a, b) == IF a >= b THEN a ELSE b
Min2(a, b) == IF a <= b THEN a ELSE b

\* An estimator that returns the adjusted value as it is: C9 tells it from
\* the code's clamp.
unclamped_price(estimated_price) == estimated_price

\* max(100000, min(estimated_price, 2000000))
clamp_price(estimated_price) == Max2(MinPrice, Min2(estimated_price, MaxPrice))

\* base_value * multiplier, the adjustments compounded in the code's order.
adjusted_value(bedrooms, bathrooms, square_feet, year_built, property_type, city, state) ==
    MulPct(MulPct(MulPct(MulPct(MulPct(
        OfFloat(base_value(bedrooms, bathrooms, square_feet,
                           base_price_per_sqft(state, property_type))),
        age_multiplier(year_built)),
        size_multiplier(square_feet)),
        bedroom_multiplier(bedrooms)),
        bathroom_multiplier(bathrooms)),
        city_multiplier(city.s))

\* What makes the body of estimate_property_price raise: an unhashable
\* state as a dictionary key (TypeError), a city that has no lower()
\* (AttributeError).
estimate_raises(city, state) == state.t \in {"map", "list"} \/ city.t # "str"

\* estimate_property_price(...): a Python int.  bathrooms is a float.
estimate_property_price(bedrooms, bathrooms, square_feet, year_built, property_type, city, state, slack) ==
    IF estimate_raises(city, state) THEN FallbackPrice
    ELSE clamp_price(IntOf(adjusted_value(bedrooms, bathrooms, square_feet, year_built,
                                          property_type, city, state), slack))

\* ------------------------------------------------- the small estimators

\* extract_property_features: what makes its try block raise.
\* building.get on a non-dict; construction / interior / rooms .get on a
\* non-dict; .lower() on a wall type that is no str; `> 2` on a bathsfull
\* that is no number.
features_raises(building) ==
    Truthy(building) /\
    (\/ ~IsDict(building)
     \/ LET construction == DictGet(building, "construction", JEmpty)
            interior == DictGet(building, "interior", JEmpty)
            rooms == DictGet(building, "rooms", JEmpty)
        IN  \/ ~IsDict(construction)
            \/ (Truthy(DictGet(construction, "walltype", JNull))
                  /\ DictGet(construction, "walltype", JNull).t # "str")
            \/ ~IsDict(interior)
            \/ ~IsDict(rooms)
            \/ DictGet(rooms, "bathsfull", JInt(0)).t # "num")

\* The wall-material tests as independent `if`s: a tag for every material
\* the wall type names.
every_wall_feature(construction) ==
    LET walltype == DictGet(construction, "walltype", JNull) IN
    IF ~Truthy(walltype) THEN <<>>
    ELSE LET wall_type == StrLower(walltype.s) IN
         (IF Contains(wall_type, <<"b","r","i","c","k">>) THEN <<"Brick Exterior">> ELSE <<>>)
         \o (IF Contains(wall_type, <<"s","t","o","n","e">>) THEN <<"Stone Exterior">> ELSE <<>>)
         \o (IF Contains(wall_type, <<"v","i","n","y","l">>) THEN <<"Vinyl Siding">> ELSE <<>>)

\* The construction features: the first of brick, stone, vinyl that the
\* lower-cased wall type contains.
wall_features(construction) ==
    LET walltype == DictGet(construction, "walltype", JNull) IN
    IF ~Truthy(walltype) THEN <<>>
    ELSE LET wall_type == StrLower(walltype.s) IN
         IF Contains(wall_type, <<"b","r","i","c","k">>) THEN <<"Brick Exterior">>
         ELSE IF Contains(wall_type, <<"s","t","o","n","e">>) THEN <<"Stone Exterior">>
         ELSE IF Contains(wall_type, <<"v","i","n","y","l">>) THEN <<"Vinyl Siding">>
         ELSE <<>>

\* features[:5]
FirstN(seq, n) == SubSeq(seq, 1, Min2(Len(seq), n))

\* extract_property_features(building, attom_property)
extract_property_features(building) ==
    IF features_raises(building) THEN <<"Property Features Available">>
    ELSE LET found ==
               IF ~Truthy(building) THEN <<>>
               ELSE wall_features(DictGet(building, "construction", JEmpty))
                    \o (IF Truthy(DictGet(DictGet(building, "interior", JEmpty), "fplctype", JNull))
                        THEN <<"Fireplace">> ELSE <<>>)
                    \o (IF DictGet(DictGet(building, "rooms", JEmpty), "bathsfull", JInt(0)).x2 > Fl(2)
                        THEN <<"Multiple Bathrooms">> ELSE <<>>)
         IN  FirstN(IF Len(found) = 0 THEN <<"Updated Interior", "Modern Amenities">> ELSE found, 5)

\* generate_property_description: the clauses of desc_parts, by name; the
\* text is their rendering joined by ". ".  No clause: the generic sentence.
generate_property_description(bedrooms, bathrooms, square_feet, year_built, property_type, features) ==
    LET desc_parts ==
            (IF bedrooms > 0 /\ bathrooms > 0 THEN <<"bedrooms_bathrooms">> ELSE <<>>)
         \o (IF square_feet > 0 THEN <<"square_feet">> ELSE <<>>)
         \o (IF year_built > 0
             THEN IF year_built >= 2010 THEN <<"modern_home">>
                  ELSE IF year_built >= 1990 THEN <<"well_maintained">>
                  ELSE <<"classic_home">>
             ELSE <<>>)
         \o (IF features # <<>> THEN <<"notable_features">> ELSE <<>>)
    IN  IF desc_parts # <<>> THEN desc_parts ELSE <<"generic">>

DefaultInsurance == 2400
MinInsurance == 1200
MaxInsurance == 15000

\* state_rates.get(state, 0.007), in thousandths.
state_rate(state) ==
    CASE state = JStr(TX) -> 8
      [] state = JStr(CA) -> 6
      [] state = JStr(FL) -> 10
      [] state = JStr(NY) -> 5
      [] OTHER -> 7

\* calculate_insurance_estimate(price, state); price is a float.  The
\* result is held in units of 1/2000: price (in halves) times the rate (in
\* thousandths) is exact in that unit.
InsUnit(n) == 2000 * n

\* An estimate that is the product as it is: C11 tells it from the code's
\* bounds.
unbounded_insurance(price, state) ==
    IF state.t \in {"map", "list"} THEN InsUnit(DefaultInsurance)
    ELSE IF price <= 0 THEN InsUnit(DefaultInsurance)
    ELSE price * state_rate(state)

calculate_insurance_estimate(price, state) ==
    IF state.t \in {"map", "list"} THEN InsUnit(DefaultInsurance)
    ELSE IF price <= 0 THEN InsUnit(DefaultInsurance)
    ELSE Max2(InsUnit(MinInsurance), Min2(price * state_rate(state), InsUnit(MaxInsurance)))

\* generate_placeholder_images(property_type, price): the photo ids.
generate_placeholder_images(property_type, price) ==
    IF property_type = "condo"
    THEN <<"1560448204-603c3d5dd8fd", "1586023492-413d21e96b22",
           "1505873242-726de7f43e5d", "1556909114-f6e7ad7d3136">>
    ELSE IF property_type = "townhouse"
    THEN <<"1570129477-8639e6e85b14", "1588580005-f4ac57aa0b96",
           "1505691723-85a4ee2a9b5a", "1556909049-5b38b4c37bb5">>
    ELSE IF price > Fl(500000)
    THEN <<"1564013799-7e9b35b4847d", "1512917774-9fcf808cf876",
           "1556909114-f6e7ad7d3136", "1505691938-2da3831ba2e5",
           "1484154218-0bf12d188ca6">>
    ELSE <<"1580587771525-78b9dba3b914", "1586023492-413d21e96b22",
           "1556909114-f6e7ad7d3136", "1505691938-2da3831ba2e5">>

\* determine_property_status(attom_property)
determine_property_status(attom_property) == "active"

\* A rate as a fraction num / den; 0.015 is 15 / 1000.
DefaultTaxRate == [num |-> 15, den |-> 1000]

\* calculate_tax_rate(assessment, price): annual_tax / price when the tax
\* sub-record holds a positive number, the default in every other case (the
\* except branch returns the default too).
calculate_tax_rate(assessment, price) ==
    IF ~Truthy(assessment) \/ price <= 0 \/ ~IsDict(assessment) THEN DefaultTaxRate
    ELSE LET tax_data == DictGet(assessment, "tax", JEmpty)
             annual_tax == IF Truthy(tax_data) /\ IsDict(tax_data)
                           THEN DictGet(tax_data, "taxtot", JNull) ELSE JNull
         IN  IF annual_tax.t = "num" /\ annual_tax.x2 > 0
             THEN [num |-> annual_tax.x2, den |-> price]
             ELSE DefaultTaxRate

\* ------------------------------------------------ the record normalizer

RECURSIVE NatStr(_)
\* str(n) of a natural number
NatStr(n) == IF n < 10 THEN <<Digits[n + 1]>> ELSE NatStr(n \div 10) \o <<Digits[(n % 10) + 1]>>

\* The text an f-string gives a value: a str as it is, None, and a number
\* (a whole number is a JSON integer, so it prints without ".0").
Format(v) ==
    CASE v.t = "str" -> v.s
      [] v.t = "null" -> <<"N","o","n","e">>
      [] v.t = "num" ->
           (IF v.x2 < 0 THEN <<"-">> ELSE <<>>)
           \o NatStr((IF v.x2 < 0 THEN -v.x2 ELSE v.x2) \div 2)
           \o (IF v.x2 % 2 = 1 THEN <<".","5">> ELSE <<>>)

\* The sections normalize reads with .get(section, {}).
Section(attom_property, name) == DictGet(attom_property, name, JEmpty)

\* building.get(name, {}) if building else {}
SubSection(section, name) ==
    IF Truthy(section) THEN DictGet(section, name, JEmpty) ELSE JEmpty

\* What makes the try block of normalize_property_with_logging raise, for
\* an attom_property that is a dict: .keys() / .get on a section that is
\* not a dict, .upper() on a propertyType that is no str, `"SFR" in` a
\* proptype that is no container.
is_condominium(summary) ==
    Contains(StrUpper(DictGet(summary, "propertyType", JStr(<<>>)).s),
             <<"C","O","N","D","O","M","I","N","I","U","M">>)

normalize_raises(attom_property) ==
    LET building == Section(attom_property, "building")
        assessment == Section(attom_property, "assessment")
        summary == Section(attom_property, "summary")
    IN  \/ (Truthy(building) /\ ~IsDict(building))
        \/ (Truthy(assessment) /\ ~IsDict(assessment))
        \/ ~IsDict(SubSection(building, "rooms"))
        \/ ~IsDict(SubSection(building, "size"))
        \/ ~IsDict(SubSection(assessment, "market"))
        \/ (Truthy(assessment) /\ ~IsDict(DictGet(assessment, "assessed", JEmpty)))
        \/ ~IsDict(Section(attom_property, "lot"))
        \/ ~IsDict(Section(attom_property, "location"))
        \/ ~IsDict(summary)
        \/ DictGet(summary, "propertyType", JStr(<<>>)).t # "str"
        \/ (~is_condominium(summary)
              /\ DictGet(summary, "proptype", JStr(<<>>)).t \in {"null", "num"})

\* price_fields: the four candidate prices, floats.
price_fields(assessment) ==
    LET market == SubSection(assessment, "market") IN
    << safe_float(DictGet(market, "mktttlvalue", JNull), 0),
       safe_float(DictGet(market, "mktlndvalue", JNull), 0),
       safe_float(IF Truthy(assessment)
                  THEN DictGet(DictGet(assessment, "assessed", JEmpty), "assdttlvalue", JNull)
                  ELSE JNull, 0),
       safe_float(IF Truthy(assessment)
                  THEN DictGet(DictGet(assessment, "market", JEmpty), "mktttlvalue", JNull)
                  ELSE JNull, 0) >>

\* A resolution that takes the first candidate that is not zero: C8 tells
\* it from the code's `p > 0`.
first_nonzero(fields) ==
    IF \E i \in DOMAIN fields : fields[i] # 0
    THEN fields[CHOOSE i \in DOMAIN fields :
                    fields[i] # 0 /\ \A j \in 1..(i - 1) : fields[j] = 0]
    ELSE 0

\* next((p for p in price_fields if p > 0), 0)
first_positive(fields) ==
    IF \E i \in DOMAIN fields : fields[i] > 0
    THEN fields[CHOOSE i \in DOMAIN fields :
                    fields[i] > 0 /\ \A j \in 1..(i - 1) : ~(fields[j] > 0)]
    ELSE 0

\* `"SFR" in prop_type`: a substring of a str, a key of a dict, an element
\* of a list.
sfr_in(prop_type) ==
    CASE prop_type.t = "str" -> Contains(prop_type.s, <<"S","F","R">>)
      [] prop_type.t = "map" -> "SFR" \in DOMAIN prop_type.m
      [] prop_type.t = "list" ->
           \E i \in DOMAIN prop_type.l : prop_type.l[i] = JStr(<<"S","F","R">>)

\* The property type normalize assigns (lines 537-544).
assigned_property_type(summary) ==
    LET upper == StrUpper(DictGet(summary, "propertyType", JStr(<<>>)).s)
        prop_type == DictGet(summary, "proptype", JStr(<<>>))
    IN  IF Contains(upper, <<"C","O","N","D","O","M","I","N","I","U","M">>) THEN "condo"
        ELSE IF sfr_in(prop_type)
                \/ Contains(upper, <<"S","I","N","G","L","E"," ","F","A","M","I","L","Y">>)
             THEN "single_family"
        ELSE IF Contains(upper, <<"T","O","W","N","H","O","U","S","E">>) THEN "townhouse"
        ELSE "single_family"

\* full_address = f"{line1}, {line2}" if line2 else line1
full_address(address) ==
    LET line1 == safe_get(address, <<"line1">>, JStr(<<>>))
        line2 == safe_get(address, <<"line2">>, JStr(<<>>))
    IN  IF Truthy(line2) THEN JStr(Format(line1) \o <<",", " ">> \o Format(line2)) ELSE line1

\* latitude if latitude != 0 else None
coordinate(value) == IF value # 0 THEN JNum(value) ELSE JNull

\* if price == 0: price = estimate_property_price(...)   (lines 547-548)
price_or_estimate(found, bedrooms, bathrooms, square_feet, year_built, property_type, city, state, slack) ==
    IF found = 0
    THEN Fl(estimate_property_price(bedrooms, bathrooms, square_feet, year_built,
                                    property_type, city, state, slack))
    ELSE found

\* The dict built at lines 585-611 from the values extracted before it.
\* price is a float; insurance_estimate is in units of 1/2000.
assemble(attom_property, city, state, bedrooms, bathrooms, square_feet, year_built, property_type, price, features) ==
    [ id |-> safe_get(attom_property, <<"identifier", "attomId">>, JStr(<<>>)),
      address |-> full_address(Section(attom_property, "address")),
      city |-> city,
      state |-> state,
      zip_code |-> safe_get(Section(attom_property, "address"), <<"postal1">>, JStr(NA)),
      price |-> price,
      bedrooms |-> bedrooms,
      bathrooms |-> bathrooms,
      square_feet |-> square_feet,
      year_built |-> year_built,
      lot_size |-> safe_int(DictGet(Section(attom_property, "lot"), "lotSize1", JNull), 0),
      property_type |-> property_type,
      latitude |-> coordinate(safe_float(
                      DictGet(Section(attom_property, "location"), "latitude", JNull), 0)),
      longitude |-> coordinate(safe_float(
                      DictGet(Section(attom_property, "location"), "longitude", JNull), 0)),
      estimated_value |-> price,
      property_status |-> determine_property_status(attom_property),
      days_on_market |-> 30,
      hoa_fee |-> 0,
      property_tax_rate |-> calculate_tax_rate(Section(attom_property, "assessment"), price),
      description |-> generate_property_description(bedrooms, bathrooms, square_feet,
                                                    year_built, property_type, features),
      features |-> features,
      images |-> generate_placeholder_images(property_type, price),
      neighborhood |-> city,
      school_rating |-> JNull,
      insurance_estimate |-> calculate_insurance_estimate(price, state) ]

\* The record once the specs and the type are extracted (lines 546-611).
priced(attom_property, city, state, bedrooms, bathrooms, square_feet, year_built, property_type, slack) ==
    assemble(attom_property, city, state, bedrooms, bathrooms, square_feet, year_built,
             property_type,
             price_or_estimate(first_positive(price_fields(Section(attom_property, "assessment"))),
                               bedrooms, bathrooms, square_feet, year_built,
                               property_type, city, state, slack),
             extract_property_features(Section(attom_property, "building")))

\* The body of the try block (lines 475-620), for an attom_property on
\* which nothing raises.
normalized_record(attom_property, slack) ==
    priced(attom_property,
           safe_get(Section(attom_property, "address"), <<"locality">>, JStr(NA)),
           safe_get(Section(attom_property, "address"), <<"countrySubd">>, JStr(NA)),
           safe_int(DictGet(SubSection(Section(attom_property, "building"), "rooms"),
                            "beds", JNull), 0),
           safe_float(DictGet(SubSection(Section(attom_property, "building"), "rooms"),
                              "bathstotal", JNull), 0),
           safe_int(DictGet(SubSection(Section(attom_property, "building"), "size"),
                            "universalsize", JNull), 0),
           safe_int(DictGet(Section(attom_property, "summary"), "yearbuilt", JNull), 0),
           assigned_property_type(Section(attom_property, "summary")),
           slack)

\* What a call ends with: a returned dict, a returned None, an exception
\* that leaves the function.
Returned(record) == [k |-> "dict", v |-> record]
ReturnedNone == [k |-> "none"]
Raised == [k |-> "raised"]

\* normalize_property_with_logging(attom_property).  The except branch
\* (lines 622-625) logs list(attom_property.keys()) if attom_property is
\* truthy, which raises again when it is not a dict, and returns None.
normalize_property_with_logging(attom_property, slack) ==
    IF ~IsDict(attom_property)
    THEN IF Truthy(attom_property) THEN Raised ELSE ReturnedNone
    ELSE IF normalize_raises(attom_property) THEN ReturnedNone
    ELSE Returned(normalized_record(attom_property, slack))

\* ------------------------------------------------ the search endpoint

\* CITY_ZIPS.get(city_key, [])
CITY_ZIPS(city_key) ==
    CASE city_key = Austin ->
           <<"78701", "78702", "78703", "78704", "78705",
             "78712", "78721", "78722", "78723", "78724">>
      [] city_key = Dallas ->
           <<"75201", "75202", "75203", "75204", "75205",
             "75206", "75207", "75208", "75209", "75210">>
      [] city_key = Houston ->
           <<"77001", "77002", "77003", "77004", "77005",
             "77006", "77007", "77008", "77009", "77010">>
      [] city_key = SanAntonio ->
           <<"78201", "78202", "78203", "78204", "78205",
             "78206", "78207", "78208", "78209", "78210">>
      [] OTHER -> <<>>

\* zip_codes as lines 637-642 leave it.
resolve_zip_codes(city) ==
    LET found == CITY_ZIPS(StrStrip(StrLower(city))) IN
    IF found = <<>> THEN <<"78701">> ELSE found

\* seq[:n], for any integer n: a negative n drops the last -n elements.
Slice(seq, n) ==
    IF n >= 0 THEN SubSeq(seq, 1, Min2(n, Len(seq)))
    ELSE SubSeq(seq, 1, Max2(Len(seq) + n, 0))

\* The elements of a sequence.
Range(seq) == {seq[i] : i \in DOMAIN seq}

\* A fan-out over every resolved ZIP code: C7 tells it from the code's
\* slice.
every_zip_code(zip_codes) == zip_codes

\* zip_codes[:3]: the ZIP codes a fetch is issued for.
fetched_zip_codes(zip_codes) == Slice(zip_codes, 3)

\* properties_per_zip = max(1, limit // len(zip_codes))
properties_per_zip(limit, zip_codes) == Max2(1, limit \div Len(zip_codes))

\* params["pagesize"] = min(limit, 100)
pagesize(limit) == Min2(limit, 100)

\* One HTTP exchange: the request raises (timeout, connection error, a body
\* that is no JSON), or answers with a status and, on 200, the parsed body.
HttpRaise == [k |-> "raise"]
HttpStatus(code) == [k |-> "status", code |-> code, data |-> JNull]
HttpOk(data) == [k |-> "status", code |-> 200, data |-> data]

\* data.get("property", []) and what follows it in the expandedprofile
\* branch (lines 413-441): Raise when the body is no dict, when len() fails
\* or when logging the first record fails; else the value returned.
expanded_properties(data) ==
    IF ~IsDict(data) THEN Raise
    ELSE LET properties == DictGet(data, "property", JList(<<>>)) IN
         IF properties.t \in {"null", "num"} THEN Raise
         ELSE IF ~Truthy(properties) THEN Ret(properties)
         ELSE IF properties.t = "list" /\ IsDict(properties.l[1]) THEN Ret(properties)
         ELSE Raise

\* The snapshot branch (lines 459-462).
snapshot_properties(data) ==
    IF ~IsDict(data) THEN Raise
    ELSE LET properties == DictGet(data, "property", JList(<<>>)) IN
         IF properties.t \in {"null", "num"} THEN Raise ELSE Ret(properties)

\* A running fetch_attom_properties(zip_code, limit): where it is
\* ("expanded": awaiting the expandedprofile answer, "snapshot": awaiting
\* the fallback answer, "done") and how it ended: "returned" (lines 441,
\* 462), "status" (line 466), "raised" (line 470, result []).
NewTask(zip_code, limit) ==
    [zip_code |-> zip_code, limit |-> limit, pc |-> "expanded",
     outcome |-> "pending", result |-> JList(<<>>)]

Finished(task, outcome, result) ==
    [task EXCEPT !.pc = "done", !.outcome = outcome, !.result = result]

\* fetch_attom_properties after the expandedprofile answer.
after_expanded(task, resp) ==
    IF resp.k = "raise" THEN Finished(task, "raised", JList(<<>>))
    ELSE IF resp.code = 200
    THEN LET r == expanded_properties(resp.data) IN
         IF r.k = "raise" THEN Finished(task, "raised", JList(<<>>))
         ELSE Finished(task, "returned", r.v)
    ELSE [task EXCEPT !.pc = "snapshot"]

\* fetch_attom_properties after the snapshot answer.
after_snapshot(task, resp) ==
    IF resp.k = "raise" THEN Finished(task, "raised", JList(<<>>))
    ELSE IF resp.code = 200
    THEN LET r == snapshot_properties(resp.data) IN
         IF r.k = "raise" THEN Finished(task, "raised", JList(<<>>))
         ELSE Finished(task, "returned", r.v)
    ELSE Finished(task, "status", JList(<<>>))

RECURSIVE collect_newest_first(_)
\* The loop with each list put in front of what was collected before it.
collect_newest_first(results) ==
    IF results = <<>> THEN <<>>
    ELSE collect_newest_first(Tail(results))
           \o (IF Head(results).t = "list" THEN Head(results).l ELSE <<>>)

RECURSIVE collect(_)
\* The loop of lines 654-659 over the results of gather, in task order:
\* a result that is a list is appended, any other is skipped.
collect(results) ==
    IF results = <<>> THEN <<>>
    ELSE (IF Head(results).t = "list" THEN Head(results).l ELSE <<>>) \o collect(Tail(results))

\* A gather that gives every task an empty result as soon as one task
\* failed: C3 tells it from the code's, where a failure leaves the siblings'
\* results alone.
gather_all_or_nothing(task_seq) ==
    [i \in DOMAIN task_seq |->
        IF \E j \in DOMAIN task_seq : task_seq[j].outcome \in {"raised", "status"}
        THEN JList(<<>>) ELSE task_seq[i].result]

\* asyncio.gather(*tasks, return_exceptions=True): every task's result, in
\* task order.
gather(task_seq) == [i \in DOMAIN task_seq |-> task_seq[i].result]

\* if normalized_prop and normalized_prop.get("address")
passes_gate(normalized_prop) ==
    normalized_prop.k = "dict" /\ Truthy(normalized_prop.v.address)

\* One turn of the loop of lines 665-669: the record is appended when it
\* passes the gate.
gate(normalized_prop, rest) ==
    IF normalized_prop.k = "raised" \/ rest.k = "raised" THEN Raised
    ELSE [k |-> "list",
          v |-> (IF passes_gate(normalized_prop) THEN <<normalized_prop.v>> ELSE <<>>) \o rest.v]

RECURSIVE normalize_loop(_, _)
\* The loop of lines 664-669: Raised when a normalize call raises.
normalize_loop(props, slack_of) ==
    IF props = <<>> THEN [k |-> "list", v |-> <<>>]
    ELSE gate(normalize_property_with_logging(Head(props), slack_of[Head(props)]),
              normalize_loop(Tail(props), slack_of))

\* What search_attom_properties answers once the fetches are gathered: the
\* list of normalized records, or (lines 686-688) HTTP 500.
Http500 == [k |-> "http500"]
or_http500(r) == IF r.k = "raised" THEN Http500 ELSE r
search_response(collected, limit, slack_of) ==
    or_http500(normalize_loop(Slice(collected, limit), slack_of))

\* ------------------------------------------------ the details endpoint

\* A float literal that is not a multiple of one half, held as its text.
JFloatText(text) == [t |-> "float", text |-> text]

\* The mock property of lines 740-769.
placeholder(property_id) ==
    [ id |-> JStr(property_id),
      address |-> JStr(<<"1","2","3","4"," ","S","a","m","p","l","e"," ","S","t","r","e","e","t">>),
      city |-> JStr(<<"A","u","s","t","i","n">>),
      state |-> JStr(TX),
      zip_code |-> JStr(<<"7","8","7","0","1">>),
      price |-> Fl(450000),
      bedrooms |-> 3,
      bathrooms |-> 5,
      square_feet |-> 2100,
      year_built |-> 2008,
      lot_size |-> 7500,
      property_type |-> "single_family",
      latitude |-> JFloatText("30.2672"),
      longitude |-> JFloatText("-97.7431"),
      estimated_value |-> Fl(450000),
      property_status |-> "active",
      days_on_market |-> 30,
      hoa_fee |-> 0,
      property_tax_rate |-> [num |-> 18, den |-> 1000],
      description |-> <<"placeholder_text">>,
      features |-> <<"Updated Interior", "Modern Amenities", "Hardwood Floors",
                     "Two-Car Garage", "Fenced Yard">>,
      images |-> <<"1570129477-d4d2e7e6de2d", "1586023492-413d21e96b22">>,
      neighborhood |-> JStr(<<"C","e","n","t","r","a","l"," ","A","u","s","t","i","n">>),
      school_rating |-> JNull,
      insurance_estimate |-> InsUnit(3600) ]

\* The direct lookup (lines 705-715) after its answer: the call returns a
\* record, raises (HTTP 500, lines 771-773), or goes on to the scan.
GoOn == [k |-> "go_on"]

\* if normalized and normalized.get("id"): return normalized
found_by_lookup(normalized) ==
    IF normalized.k = "raised" THEN Http500
    ELSE IF normalized.k = "dict" /\ Truthy(normalized.v.id) THEN normalized
    ELSE GoOn

lookup_properties(properties, slack) ==
    IF ~Truthy(properties) THEN GoOn
    ELSE IF properties.t # "list" THEN Http500
    ELSE found_by_lookup(normalize_property_with_logging(properties.l[1], slack))

direct_lookup(resp, slack) ==
    IF resp.k = "raise" THEN Http500
    ELSE IF resp.code # 200 THEN GoOn
    ELSE IF ~IsDict(resp.data) THEN Http500
    ELSE lookup_properties(DictGet(resp.data, "property", JList(<<>>)), slack)

RECURSIVE scan_list(_, _)
\* The loop of lines 732-736 over a list: the first record whose
\* identifier.attomId equals property_id, Raise at a record (or an
\* identifier) that has no .get.
scan_list(props, property_id) ==
    IF props = <<>> THEN [k |-> "nomatch"]
    ELSE IF ~IsDict(Head(props)) \/ ~IsDict(DictGet(Head(props), "identifier", JEmpty))
    THEN Raise
    ELSE IF DictGet(DictGet(Head(props), "identifier", JEmpty), "attomId", JStr(<<>>))
              = JStr(property_id)
    THEN [k |-> "match", prop |-> Head(props)]
    ELSE scan_list(Tail(props), property_id)

\* return normalize_property_with_logging(prop)   (line 736)
found_by_scan(found, slack) ==
    IF found.k = "raise" THEN Http500
    ELSE IF found.k = "nomatch" THEN GoOn
    ELSE normalize_property_with_logging(found.prop, slack)

scan_properties(search_properties, property_id, slack) ==
    IF search_properties.t \in {"null", "num"} THEN Http500
    ELSE IF ~Truthy(search_properties) THEN GoOn
    ELSE IF search_properties.t # "list" THEN Http500
    ELSE found_by_scan(scan_list(search_properties.l, property_id), slack)

\* One scanned ZIP code (lines 726-736) after its answer.
scan_zip(resp, property_id, slack) ==
    IF resp.k = "raise" THEN Http500
    ELSE IF resp.code # 200 THEN GoOn
    ELSE IF ~IsDict(resp.data) THEN Http500
    ELSE scan_properties(DictGet(resp.data, "property", JList(<<>>)), property_id, slack)

\* CITY_ZIPS.get("austin", ["78701"])[:2]: the ZIP codes scanned.
scanned_zip_codes == Slice(CITY_ZIPS(Austin), 2)

\* ------------------------------------------------------ the inputs

\* A dict from a record of values: a field that is Absent is left out.
Absent == [t |-> "absent"]
Dict(fields) == JMap([k \in {f \in DOMAIN fields : fields[f] # Absent} |-> fields[k]])

\* The sequences over S of length at most n.
SeqsUpTo(S, n) == UNION {[1..k -> S] : k \in 0..n}

\* Bounds of the model.
MaxRecs == 1
MaxLimit == 2
MaxBeds == 4
MaxBaths == 7

\* limit: int = Query(default=20)
DefaultLimit == 20

\* The two ways a double product can fall (see IntOf).
Slacks == {0, 1}

Line1 == <<"1"," ","A"," ","S","t">>

\* A well-formed record: an address, a market value, id "7".
GoodRecord ==
    Dict([ identifier |-> Dict([attomId |-> JStr(<<"7">>)]),
           address |-> Dict([line1 |-> JStr(Line1), locality |-> JStr(<<"A","u","s","t","i","n">>),
                             countrySubd |-> JStr(TX), postal1 |-> JStr(<<"7","8","7","0","1">>)]),
           building |-> Dict([rooms |-> Dict([beds |-> JInt(3), bathstotal |-> JInt(2)]),
                              size |-> Dict([universalsize |-> JInt(1500)])]),
           assessment |-> Dict([market |-> Dict([mktttlvalue |-> JInt(350000)])]),
           summary |-> Dict([propertyType |-> JStr(<<"S","F","R">>), yearbuilt |-> JInt(2010)]) ])

\* A record with a numeric id and no address.
NoAddressRecord == Dict([identifier |-> Dict([attomId |-> JInt(9)])])

\* A record whose summary.propertyType is null; id "8".
NullTypeRecord ==
    Dict([ identifier |-> Dict([attomId |-> JStr(<<"8">>)]),
           address |-> Dict([line1 |-> JStr(Line1)]),
           summary |-> Dict([propertyType |-> JNull]) ])

\* A record that is a string, not a dict.
StringRecord == JStr(<<"x">>)

SampleRecords == {GoodRecord, NoAddressRecord, NullTypeRecord, StringRecord}

\* The values of the body's "property": lists of records, null, {}, a dict.
PropertyValues(n) ==
    {JList(l) : l \in SeqsUpTo(SampleRecords, Min2(n, MaxRecs))}
      \cup {JNull, JEmpty, JMap([status |-> JInt(0)])}

\* The answers to a request of page size n: the provider returns at most n
\* records.
Answers(n) ==
    {HttpRaise, HttpStatus(404), HttpOk(JNull), HttpOk(JEmpty)}
      \cup {HttpOk(JMap([property |-> pv])) : pv \in PropertyValues(n)}

Cities == { <<" ","A","u","s","t","i","n">>, <<"W","a","c","o">> }
Limits == ((-1)..MaxLimit) \cup {DefaultLimit}
PropertyIds == { <<"7">>, <<"8">>, <<"9">> }

\* ------------------------------------------------------- the machine

VARIABLES
    pc,              \* "idle", "gathering", "lookup", "scanning", "done", "call"
    request,         \* the request being served
    tasks,           \* search: the fetch tasks handed to gather, in order
    all_properties,  \* search: the raw records collected from the tasks
    scanned,         \* details: the answers so far (direct lookup, then ZIPs)
    response,        \* what the endpoint answered
    call             \* a call of a pure function, and its result

vars == <<pc, request, tasks, all_properties, scanned, response, call>>

NoRequest == [op |-> "none"]
NoResponse == [k |-> "pending"]

Init ==
    /\ pc = "idle"
    /\ request = NoRequest
    /\ tasks = <<>>
    /\ all_properties = <<>>
    /\ scanned = <<>>
    /\ response = NoResponse
    /\ call = [fn |-> "none"]

\* search_attom_properties up to the await of gather (lines 634-651).
SearchRequest(city, state, limit) ==
    /\ pc = "idle"
    /\ pc' = "gathering"
    /\ request' = [op |-> "search", city |-> city, state |-> state, limit |-> limit]
    /\ LET zip_codes == resolve_zip_codes(city)
           fetched == fetched_zip_codes(zip_codes)
       IN  tasks' = [i \in DOMAIN fetched |->
                        NewTask(fetched[i], properties_per_zip(limit, zip_codes))]
    /\ UNCHANGED <<all_properties, scanned, response, call>>

\* Task i receives the answer of its expandedprofile request.
ExpandedAnswer(i, resp) ==
    /\ pc = "gathering"
    /\ tasks[i].pc = "expanded"
    /\ tasks' = [tasks EXCEPT ![i] = after_expanded(tasks[i], resp)]
    /\ UNCHANGED <<pc, request, all_properties, scanned, response, call>>

\* Task i receives the answer of its snapshot request.
SnapshotAnswer(i, resp) ==
    /\ pc = "gathering"
    /\ tasks[i].pc = "snapshot"
    /\ tasks' = [tasks EXCEPT ![i] = after_snapshot(tasks[i], resp)]
    /\ UNCHANGED <<pc, request, all_properties, scanned, response, call>>

\* gather returns once every task is done; the rest of the handler (lines
\* 653-688) runs without awaiting.
SearchJoin(slack_of) ==
    /\ pc = "gathering"
    /\ \A i \in DOMAIN tasks : tasks[i].pc = "done"
    /\ pc' = "done"
    /\ all_properties' = collect(gather(tasks))
    /\ response' = search_response(collect(gather(tasks)), request.limit, slack_of)
    /\ UNCHANGED <<request, tasks, scanned, call>>

\* get_property_details up to the await of the direct lookup.
DetailsRequest(property_id) ==
    /\ pc = "idle"
    /\ pc' = "lookup"
    /\ request' = [op |-> "details", property_id |-> property_id]
    /\ UNCHANGED <<tasks, all_properties, scanned, response, call>>

\* What a step of get_property_details leaves: the call goes on to the next
\* request, or ends with `outcome`; after the last scanned ZIP code it ends
\* with the mock property.
DetailsStep(resp, outcome) ==
    /\ scanned' = Append(scanned, resp)
    /\ IF outcome # GoOn
       THEN pc' = "done" /\ response' = outcome
       ELSE IF Len(scanned) = Len(scanned_zip_codes)
       THEN pc' = "done" /\ response' = Returned(placeholder(request.property_id))
       ELSE pc' = "scanning" /\ response' = response
    /\ UNCHANGED <<request, tasks, all_properties, call>>

\* The answer of the direct lookup.
LookupAnswer(resp, slack) ==
    /\ pc = "lookup"
    /\ DetailsStep(resp, direct_lookup(resp, slack))

\* The answer of the snapshot request of the next ZIP code.
ScanAnswer(resp, slack) ==
    /\ pc = "scanning"
    /\ DetailsStep(resp, scan_zip(resp, request.property_id, slack))

\* The raw records the search normalizes once its fetches are gathered.  A
\* record's estimate falls one way (see IntOf) wherever the record occurs.
NormalizedRecords ==
    IF pc = "gathering" THEN Range(Slice(collect(gather(tasks)), request.limit)) ELSE {}

Next ==
    \/ \E city \in Cities, limit \in Limits : SearchRequest(city, TX, limit)
    \/ \E i \in DOMAIN tasks : \E resp \in Answers(pagesize(tasks[i].limit)) :
          ExpandedAnswer(i, resp)
    \/ \E i \in DOMAIN tasks : \E resp \in Answers(pagesize(tasks[i].limit)) :
          SnapshotAnswer(i, resp)
    \/ \E slack_of \in [NormalizedRecords -> Slacks] : SearchJoin(slack_of)
    \/ \E property_id \in PropertyIds : DetailsRequest(property_id)
    \/ \E resp \in Answers(1), slack \in Slacks : LookupAnswer(resp, slack)
    \/ \E resp \in Answers(50), slack \in Slacks : ScanAnswer(resp, slack)

Spec == Init /\ [][Next]_vars

\* ------------------------------------------- calls of the pure functions

\* The arguments estimate_property_price is checked on: bathrooms in halves,
\* a city that is no string and a state that is no hashable key among them.
InitEstimate ==
    /\ pc = "call"
    /\ request = NoRequest
    /\ tasks = <<>>
    /\ all_properties = <<>>
    /\ scanned = <<>>
    /\ response = NoResponse
    /\ call \in [fn : {"estimate"}, args : [ bedrooms : (-1)..MaxBeds,
                        bathrooms : (-1)..MaxBaths,
                        square_feet : {0, 600, 999, 1000, 1500, 3001, 12000},
                        year_built : {0, 1950, 1973, 1974, 2010, 2020},
                        property_type : {"condo", "single_family", "townhouse", "multi_family"},
                        city : {JStr(<<"A","u","s","t","i","n">>), JStr(<<"D","A","L","L","A","S">>),
                        JStr(NA), JInt(5)},
                        state : {JStr(TX), JStr(NY), JStr(NA), JMap([code |-> JStr(TX)])} ],
                 slack : Slacks,
                 done : {FALSE}, result : {NoResponse}]

\* estimate_property_price is called on the arguments and returns.
EstimateCall ==
    /\ pc = "call"
    /\ call.fn = "estimate"
    /\ ~call.done
    /\ call' = [call EXCEPT
                  !.done = TRUE,
                  !.result = Ret(estimate_property_price(
                                call.args.bedrooms, call.args.bathrooms, call.args.square_feet,
                                call.args.year_built, call.args.property_type,
                                call.args.city, call.args.state, call.slack))]
    /\ UNCHANGED <<pc, request, tasks, all_properties, scanned, response>>

SpecEstimate == InitEstimate /\ [][EstimateCall]_vars

\* The raw records normalize is checked on: every combination of these
\* sections, and four values that are no record.
RawRecords ==
    LET
        AddressChoices ==
            { Absent, JNull,
              Dict([line1 |-> JStr(Line1), locality |-> JStr(<<"A","u","s","t","i","n">>),
                    countrySubd |-> JStr(TX)]),
              Dict([line1 |-> JStr(Line1), line2 |-> JStr(<<"#","2">>),
                    locality |-> JStr(<<"D","A","L","L","A","S">>), countrySubd |-> JStr(CA),
                    postal1 |-> JInt(75201)]) }
        RoomsChoices ==
            { Absent, JNull,
              Dict([beds |-> JInt(3), bathstotal |-> JInt(2)]),
              Dict([beds |-> JStr(<<"4">>), bathstotal |-> JNum(7), bathsfull |-> JInt(3)]) }
        SizeChoices ==
            { Absent, Dict([universalsize |-> JInt(0)]), Dict([universalsize |-> JInt(1500)]),
              Dict([universalsize |-> JInt(3001)]) }
        AssessmentChoices ==
            { Absent, JStr(<<"x">>),
              Dict([market |-> JNull]),
              Dict([market |-> Dict([mktttlvalue |-> JInt(350000), mktlndvalue |-> JInt(90000)])]),
              Dict([market |-> Dict([mktttlvalue |-> JInt(0), mktlndvalue |-> JInt(90000)])]),
              Dict([market |-> Dict([mktttlvalue |-> JInt(-5), mktlndvalue |-> JInt(90000)]),
                    assessed |-> Dict([assdttlvalue |-> JInt(200000)])]),
              Dict([market |-> Dict([mktttlvalue |-> JStr(<<"a","b","c">>)]),
                    assessed |-> Dict([assdttlvalue |-> JStr(<<"2","0","0","0","0","0">>)]),
                    tax |-> Dict([taxtot |-> JInt(5000)])]),
              Dict([market |-> Dict([mktttlvalue |-> JInt(0), mktlndvalue |-> JNull]),
                    assessed |-> Dict([assdttlvalue |-> JInt(-1)])]) }
        SummaryChoices ==
            { Absent,
              Dict([propertyType |-> JStr(<<"C","o","n","d","o","m","i","n","i","u","m">>),
                    yearbuilt |-> JInt(2020)]),
              Dict([proptype |-> JStr(<<"S","F","R">>)]),
              Dict([propertyType |-> JStr(<<"T","O","W","N","H","O","U","S","E">>),
                    yearbuilt |-> JStr(<<"1","9","5","0">>)]),
              Dict([propertyType |-> JStr(<<"D","u","p","l","e","x">>), yearbuilt |-> JInt(1973)]),
              Dict([propertyType |-> JNull]),
              Dict([proptype |-> JNull, yearbuilt |-> JInt(2010)]) }
    IN
        { Dict([ address |-> a,
                 building |-> (IF r = Absent /\ z = Absent THEN Absent
                               ELSE Dict([rooms |-> r, size |-> z])),
                 assessment |-> m,
                 summary |-> y ]) :
            a \in AddressChoices, r \in RoomsChoices, z \in SizeChoices,
            m \in AssessmentChoices, y \in SummaryChoices }
          \cup {JNull, JStr(<<"a","b","c">>), JList(<<>>), JList(<<JEmpty>>)}

InitNormalize ==
    /\ pc = "call"
    /\ request = NoRequest
    /\ tasks = <<>>
    /\ all_properties = <<>>
    /\ scanned = <<>>
    /\ response = NoResponse
    /\ call \in [fn : {"normalize"}, raw : RawRecords, slack : Slacks,
                 done : {FALSE}, result : {NoResponse}]

\* normalize_property_with_logging is called on the record and returns or
\* raises.
NormalizeCall ==
    /\ pc = "call"
    /\ call.fn = "normalize"
    /\ ~call.done
    /\ call' = [call EXCEPT
                  !.done = TRUE,
                  !.result = normalize_property_with_logging(call.raw, call.slack)]
    /\ UNCHANGED <<pc, request, tasks, all_properties, scanned, response>>

SpecNormalize == InitNormalize /\ [][NormalizeCall]_vars

\* --------------------------------------- calls of the other functions

\* The steps of prices calculate_insurance_estimate is called on.
MaxPriceStep == 100

\* A call of one of the functions, on arguments drawn from small sets.
\* calculate_insurance_estimate: prices from -50000 in steps of 25000, and
\* one half; a state that is no hashable key among the states.  normalize
\* is among the calls: it calls calculate_insurance_estimate on the price
\* it resolved.
InitCalls ==
    \/ InitNormalize
    \/ /\ pc = "call"
       /\ request = NoRequest
       /\ tasks = <<>>
       /\ all_properties = <<>>
       /\ scanned = <<>>
       /\ response = NoResponse
       /\ call \in [fn : {"classify"},
                    args : [raw_type : LET TypeWords ==
                                 { <<>>,
                                 <<"C","o","n","d","o","m","i","n","i","u","m">>,
                                 <<" ","U","n","i","t">>,
                                 <<"d","e","t","a","c","h","e","d"," ">>,
                                 <<"D","U","P","L","E","X">>,
                                 <<"c","o","n","d","o">>,
                                 <<"T","o","w","n","h","o","m","e">>,
                                 <<"m","o","b","i","l","e">>,
                                 <<"A","p","a","r","t","m","e","n","t">>,
                                 <<"x","y","z">>,
                                 <<" ">>,
                                 <<"S","i","n","g","l","e"," ","F","a","m","i","l","y">>,
                                 <<"s","i","n","g","l","e","_","f","a","m","i","l","y">>,
                                 <<"M","A","N","U","F","A","C","T","U","R","E","D">>,
                                 <<"t","r","i","p","l","e","x">>,
                                 <<"f","o","u","r","p","l","e","x">>,
                                 <<"t","o","w","n","h","o","u","s","e">> }
                                   IN  {a \o b : a, b \in TypeWords}],
                    done : {FALSE}, result : {NoResponse}]
    \/ /\ pc = "call"
       /\ request = NoRequest
       /\ tasks = <<>>
       /\ all_properties = <<>>
       /\ scanned = <<>>
       /\ response = NoResponse
       /\ call \in [fn : {"insurance"},
                    args : [ price : {Fl(25000 * k) : k \in (-2)..MaxPriceStep} \cup {1},
                             state : {JStr(TX), JStr(CA), JStr(FL), JStr(NY), JStr(NA),
                                      JMap([code |-> JStr(TX)])} ],
                    done : {FALSE}, result : {NoResponse}]

    \/ /\ pc = "call"
       /\ request = NoRequest
       /\ tasks = <<>>
       /\ all_properties = <<>>
       /\ scanned = <<>>
       /\ response = NoResponse
       /\ call \in [fn : {"safe_get"},
                    args : [ obj : { JNull, JEmpty, JStr(<<"x">>), JInt(5), JList(<<JInt(1)>>),
                                     JMap([a |-> JNull]), JMap([a |-> JStr(<<>>)]),
                                     JMap([a |-> JInt(0)]), JMap([a |-> JInf]),
                                     JMap([a |-> JList(<<>>)]), JMap([a |-> JEmpty]),
                                     JMap([a |-> JMap([b |-> JNull])]),
                                     JMap([a |-> JMap([b |-> JStr(<<>>)])]),
                                     JMap([a |-> JMap([b |-> JInt(3)])]),
                                     JMap([a |-> JList(<<JInt(1)>>), b |-> JHuge]) },
                             path : { <<"a">>, <<"b">>, <<"a", "b">>, <<"a", "b", "c">> },
                             default : { JNull, JInt(7) } ],
                    done : {FALSE}, result : {NoResponse}]
    \/ /\ pc = "call"
       /\ request = NoRequest
       /\ tasks = <<>>
       /\ all_properties = <<>>
       /\ scanned = <<>>
       /\ response = NoResponse
       /\ call \in [fn : {"safe_int", "safe_float"},
                    args : [ value : { JNull, JInt(0), JInt(3), JNum(5), JNum(-5), JInf, JHuge,
                                       JStr(<<>>), JStr(<<"x">>), JStr(<<"1", "2">>),
                                       JStr(<<" ", "-", "4", " ">>), JStr(<<"2", ".", "5">>),
                                       JEmpty, JMap([a |-> JInt(1)]), JList(<<>>),
                                       JList(<<JInt(1)>>) },
                             default : { 0, 7 } ],
                    done : {FALSE}, result : {NoResponse}]

    \/ /\ pc = "call"
       /\ request = NoRequest
       /\ tasks = <<>>
       /\ all_properties = <<>>
       /\ scanned = <<>>
       /\ response = NoResponse
       /\ call \in [fn : {"features"},
                    args : [ building :
                               {JNull, JEmpty, JStr(<<"x">>), JInt(3), JList(<<JEmpty>>)}
                               \cup
                               { Dict([construction |-> c, interior |-> i, rooms |-> r]) :
                                   c \in { Absent, JNull, JEmpty, JStr(<<"x">>),
                                           Dict([walltype |-> JNull]),
                                           Dict([walltype |-> JStr(<<>>)]),
                                           Dict([walltype |-> JInt(5)]),
                                           Dict([walltype |-> JStr(<<"W","o","o","d">>)]),
                                           Dict([walltype |-> JStr(<<"B","R","I","C","K">>)]),
                                           Dict([walltype |-> JStr(<<"S","t","o","n","e">>)]),
                                           Dict([walltype |-> JStr(<<"v","i","n","y","l">>)]),
                                           Dict([walltype |-> JStr(<<"v","i","n","y","l","/","b","r","i","c","k">>)]),
                                           Dict([walltype |-> JStr(<<"S","t","o","n","e"," ","V","i","n","y","l">>)]) },
                                   i \in { Absent, JNull, JEmpty,
                                           Dict([fplctype |-> JNull]),
                                           Dict([fplctype |-> JInt(0)]),
                                           Dict([fplctype |-> JInt(1)]),
                                           Dict([fplctype |-> JStr(<<"Y">>)]) },
                                   r \in { Absent, JNull, JEmpty, JList(<<>>),
                                           Dict([bathsfull |-> JNull]),
                                           Dict([bathsfull |-> JStr(<<"3">>)]),
                                           Dict([bathsfull |-> JInt(2)]),
                                           Dict([bathsfull |-> JNum(5)]),
                                           Dict([bathsfull |-> JInt(3)]) } } ],
                    done : {FALSE}, result : {NoResponse}]

\* safe_get is called on the arguments and returns.
SafeGetCall ==
    /\ pc = "call"
    /\ call.fn = "safe_get"
    /\ ~call.done
    /\ call' = [call EXCEPT !.done = TRUE,
                            !.result = Ret(safe_get(call.args.obj, call.args.path, call.args.default))]
    /\ UNCHANGED <<pc, request, tasks, all_properties, scanned, response>>

\* safe_int is called on the argument and returns or raises.  int() of the
\* huge int is that int itself.
SafeIntCall ==
    /\ pc = "call"
    /\ call.fn = "safe_int"
    /\ ~call.done
    /\ call' = [call EXCEPT !.done = TRUE,
                            !.result = IF safe_int_raises(call.args.value) THEN Raise
                                       ELSE IF call.args.value = JHuge THEN Ret(JHuge)
                                       ELSE Ret(JInt(safe_int(call.args.value, call.args.default)))]
    /\ UNCHANGED <<pc, request, tasks, all_properties, scanned, response>>

\* safe_float is called on the argument and returns or raises.  float() of
\* the infinite float is that float itself.
SafeFloatCall ==
    /\ pc = "call"
    /\ call.fn = "safe_float"
    /\ ~call.done
    /\ call' = [call EXCEPT !.done = TRUE,
                            !.result = IF safe_float_raises(call.args.value) THEN Raise
                                       ELSE IF call.args.value = JInf THEN Ret(JInf)
                                       ELSE Ret(JNum(safe_float(call.args.value, Fl(call.args.default))))]
    /\ UNCHANGED <<pc, request, tasks, all_properties, scanned, response>>

\* extract_property_features is called on the building and returns.
FeaturesCall ==
    /\ pc = "call"
    /\ call.fn = "features"
    /\ ~call.done
    /\ call' = [call EXCEPT !.done = TRUE,
                            !.result = Ret(extract_property_features(call.args.building))]
    /\ UNCHANGED <<pc, request, tasks, all_properties, scanned, response>>

\* calculate_insurance_estimate is called on the arguments and returns.
InsuranceCall ==
    /\ pc = "call"
    /\ call.fn = "insurance"
    /\ ~call.done
    /\ call' = [call EXCEPT
                  !.done = TRUE,
                  !.result = Ret(calculate_insurance_estimate(call.args.price, call.args.state))]
    /\ UNCHANGED <<pc, request, tasks, all_properties, scanned, response>>

\* normalize_property_type is called on the string and returns.
ClassifyCall ==
    /\ pc = "call"
    /\ call.fn = "classify"
    /\ ~call.done
    /\ call' = [call EXCEPT !.done = TRUE,
                            !.result = Ret(normalize_property_type(call.args.raw_type))]
    /\ UNCHANGED <<pc, request, tasks, all_properties, scanned, response>>

SpecCalls ==
    InitCalls /\ [][InsuranceCall \/ NormalizeCall \/ ClassifyCall
                     \/ SafeGetCall \/ SafeIntCall \/ SafeFloatCall \/ FeaturesCall]_vars

\* ------------------------------------------------------- the claims

NormalizeDone == call.fn = "normalize" /\ call.done
EstimateDone == call.fn = "estimate" /\ call.done
SearchDone == pc = "done" /\ request.op = "search"
DetailsDone == pc = "done" /\ request.op = "details"

\* The fields of the canonical schema (lines 585-611).
CanonicalSchema ==
    { "id", "address", "city", "state", "zip_code", "price", "bedrooms", "bathrooms",
      "square_feet", "year_built", "lot_size", "property_type", "latitude", "longitude",
      "estimated_value", "property_status", "days_on_market", "hoa_fee",
      "property_tax_rate", "description", "features", "images", "neighborhood",
      "school_rating", "insurance_estimate" }

\* C1: normalize is total: for every raw record (a mapping whose sections
\* and fields may be missing, null or of the wrong type) the call returns a
\* canonical record with every field of the schema; it neither raises nor
\* returns an absent result.
C1_NormalizeTotal ==
    (NormalizeDone /\ IsDict(call.raw)) =>
        (call.result.k = "dict" /\ DOMAIN call.result.v = CanonicalSchema)

\* C2: a search call never raises: whatever the provider answers to the
\* fetches, the call ends with a list of records (possibly empty).
C2_SearchNeverRaises == SearchDone => response.k = "list"

\* The number of records task `task` hands to the aggregation.
RecordCount(task) ==
    IF task.outcome = "returned" /\ task.result.t = "list" THEN Len(task.result.l) ELSE 0

\* The records of the tasks 1..n together.
ReturnedCount(task_seq) ==
    LET count[n \in 0..Len(task_seq)] ==
            IF n = 0 THEN 0 ELSE count[n - 1] + RecordCount(task_seq[n])
    IN  count[Len(task_seq)]

Failed(task) == task.outcome \in {"raised", "status"}

\* C3: when K of the N fetches of a search fail, the records of the N-K
\* that succeed are all aggregated: the aggregated raw-record count is the
\* sum of the record counts of the successful fetches; when every fetch
\* fails the aggregation is empty and the call answers the empty list, not
\* an error.
C3_PartialFailure ==
    SearchDone =>
        /\ Len(all_properties) = ReturnedCount(tasks)
        /\ (\A i \in DOMAIN tasks : Failed(tasks[i])) =>
              (all_properties = <<>> /\ response = [k |-> "list", v |-> <<>>])

\* C3's case: three fetches, exactly one failed, the other two returned
\* one record each, and both records are aggregated.
C3_OneOfThreeFailed ==
    /\ SearchDone
    /\ Len(tasks) = 3
    /\ Cardinality({i \in DOMAIN tasks : Failed(tasks[i])}) = 1
    /\ \A i \in DOMAIN tasks : ~Failed(tasks[i]) => RecordCount(tasks[i]) = 1
    /\ Len(all_properties) = 2

\* A transport failure: the request raised, or answered with a status
\* other than 200.
TransportFailure(resp) == resp.k = "raise" \/ resp.code # 200

\* C4: a details call never raises: when a request of the call fails in
\* transport, the call still ends with a record.
C4_DetailsNeverRaises ==
    (DetailsDone /\ \E i \in DOMAIN scanned : TransportFailure(scanned[i]))
        => response.k = "dict"

\* The records of a scanned answer.
RecordsOf(resp) ==
    IF resp.k = "status" /\ resp.code = 200 /\ IsDict(resp.data)
          /\ DictGet(resp.data, "property", JList(<<>>)).t = "list"
    THEN DictGet(resp.data, "property", JList(<<>>)).l
    ELSE <<>>

\* The record carries the identifier property_id.
Matches(prop, property_id) ==
    /\ IsDict(prop)
    /\ IsDict(DictGet(prop, "identifier", JEmpty))
    /\ DictGet(DictGet(prop, "identifier", JEmpty), "attomId", JStr(<<>>)) = JStr(property_id)

\* C5: when the direct lookup finds nothing and no record of any scanned
\* ZIP code carries the requested id, the call returns the placeholder
\* record, whose id is the requested id.
C5_PlaceholderWhenAbsent ==
    ( /\ DetailsDone
      /\ Len(scanned) >= 2
      /\ \A i \in 2..Len(scanned) : \A n \in DOMAIN RecordsOf(scanned[i]) :
            ~Matches(RecordsOf(scanned[i])[n], request.property_id) )
        => ( /\ response.k = "dict"
             /\ response.v.id = JStr(request.property_id)
             /\ response.v.price = Fl(450000) )

\* C6: for every integer limit the aggregated raw list is cut to at most
\* limit records before normalization, so the number of records returned
\* never exceeds the requested count (a request for fewer than no record
\* counted as a request for none).
C6_AtMostLimit ==
    (SearchDone /\ response.k = "list") => Len(response.v) <= Max2(request.limit, 0)

\* The ZIP codes the tasks of the search were started for, in task order.
FetchedZipCodes == [i \in DOMAIN tasks |-> tasks[i].zip_code]

InSearch == request.op = "search" /\ pc \in {"gathering", "done"}

\* C7 as stated: the city resolves to its ZIP codes, or to one default ZIP
\* code when it is unmapped, and exactly one fetch is issued for each
\* resolved ZIP code: the set of ZIP codes fetched is the set resolved.
C7_FetchesEveryResolvedKey ==
    InSearch =>
        /\ Len(FetchedZipCodes) = Len(resolve_zip_codes(request.city))
        /\ Range(FetchedZipCodes) = Range(resolve_zip_codes(request.city))

\* C7, amended: the city (lower-cased and stripped) resolves to its ZIP
\* codes in registry order, or to the one default ZIP code when it is
\* unmapped, and exactly one fetch is issued for each of the first three
\* resolved ZIP codes (for each of them when at most three are resolved),
\* in that order.
C7_FetchesFirstThree ==
    InSearch =>
        LET zip_codes == resolve_zip_codes(request.city) IN
        /\ zip_codes = (IF CITY_ZIPS(StrStrip(StrLower(request.city))) = <<>>
                        THEN <<"78701">>
                        ELSE CITY_ZIPS(StrStrip(StrLower(request.city))))
        /\ Len(FetchedZipCodes) = Min2(3, Len(zip_codes))
        /\ \A i \in DOMAIN FetchedZipCodes : FetchedZipCodes[i] = zip_codes[i]

\* C7's case: a mapped city with ten ZIP codes, three of them fetched, all
\* three fetches over.
C7_ThreeOfTenFetched ==
    /\ SearchDone
    /\ Len(resolve_zip_codes(request.city)) = 10
    /\ FetchedZipCodes = <<"78701", "78702", "78703">>

\* The value of a price source of the raw record, 0 when it is absent or
\* no number.
SourcePrice(raw, path) ==
    LET w == Walk(raw, path) IN IF w.k = "raise" THEN 0 ELSE safe_float(w.v, 0)

\* The candidate sources in priority order: market total value, market land
\* value, assessed total value, alternate market total value.
Candidates(raw) ==
    << SourcePrice(raw, <<"assessment", "market", "mktttlvalue">>),
       SourcePrice(raw, <<"assessment", "market", "mktlndvalue">>),
       SourcePrice(raw, <<"assessment", "assessed", "assdttlvalue">>),
       SourcePrice(raw, <<"assessment", "market", "mktttlvalue">>) >>

\* The estimate of the returned record's own attributes.
EstimateOf(record, slack) ==
    estimate_property_price(record.bedrooms, record.bathrooms, record.square_feet,
                            record.year_built, record.property_type,
                            record.city, record.state, slack)

\* C8: the price of a normalized record is the first strictly positive
\* candidate in priority order, exactly (a market total value of 350000
\* gives the price 350000) and not the estimate; the estimate is the price
\* only when every candidate is zero, negative or absent.
C8_PriceResolution ==
    (NormalizeDone /\ call.result.k = "dict") =>
        LET c == Candidates(call.raw)
            record == call.result.v
        IN  /\ \A i \in 1..4 :
                  (c[i] > 0 /\ \A j \in 1..(i - 1) : c[j] <= 0) => record.price = c[i]
            /\ (\A i \in 1..4 : c[i] <= 0) => record.price = Fl(EstimateOf(record, call.slack))
            /\ c[1] = Fl(350000) => record.price = Fl(350000)

\* C8's case: the market total value is negative, the land value and the
\* assessed value are positive and differ, and the price is the land value.
C8_SecondSourceTaken ==
    /\ NormalizeDone
    /\ call.result.k = "dict"
    /\ Candidates(call.raw)[1] < 0
    /\ Candidates(call.raw)[2] > 0
    /\ Candidates(call.raw)[3] > Candidates(call.raw)[2]
    /\ call.result.v.price = Candidates(call.raw)[2]

\* C9: whatever the arguments, estimate_property_price returns a value in
\* [100000, 2000000], the fallback value of its except branch included.
C9_EstimateBounded ==
    EstimateDone =>
        (call.result.k = "ret" /\ call.result.v >= 100000 /\ call.result.v <= 2000000)

\* C9's case: the city is no string, city.lower() raises and the except
\* branch returns 350000.
C9_FallbackTaken ==
    /\ EstimateDone
    /\ call.args.city.t # "str"
    /\ call.args.bedrooms > 0
    /\ call.result.v = 350000

\* C10: a record with no positive price source, 3 bedrooms, 2 bathrooms,
\* square_feet 0, no year built, single-family, Austin, TX has the price
\* 1500 * 180 * 1.20 = 324000.
C10_EndToEndEstimate ==
    ( /\ NormalizeDone
      /\ call.result.k = "dict"
      /\ \A i \in 1..4 : Candidates(call.raw)[i] <= 0
      /\ call.result.v.bedrooms = 3
      /\ call.result.v.bathrooms = Fl(2)
      /\ call.result.v.square_feet = 0
      /\ call.result.v.year_built = 0
      /\ call.result.v.property_type = "single_family"
      /\ call.result.v.city = JStr(<<"A","u","s","t","i","n">>)
      /\ call.result.v.state = JStr(TX) )
        => call.result.v.price = Fl(324000)

InsuranceDone == call.fn = "insurance" /\ call.done

\* C11: whatever the price and the state, calculate_insurance_estimate
\* returns a value in [1200, 15000]; a price that is not positive gives
\* 2400; so the insurance_estimate of every record normalize returns is in
\* [1200, 15000].
C11_InsuranceBounded ==
    /\ InsuranceDone =>
          /\ call.result.v >= 2000 * 1200
          /\ call.result.v <= 2000 * 15000
          /\ call.args.price <= 0 => call.result.v = 2000 * 2400
    /\ (NormalizeDone /\ call.result.k = "dict") =>
          /\ call.result.v.insurance_estimate >= 2000 * 1200
          /\ call.result.v.insurance_estimate <= 2000 * 15000

\* C11's case: a price of 2000000 in TX, whose 0.8% is 16000, gives 15000.
C11_UpperBoundTaken ==
    /\ InsuranceDone
    /\ call.args.price = Fl(2000000)
    /\ call.args.state = JStr(TX)
    /\ call.result.v = 2000 * 15000

ClassifyDone == call.fn = "classify" /\ call.done

\* The categories of the canonical schema.
Categories ==
    { "single_family", "condo", "townhouse", "multi_family", "apartment", "manufactured",
      "unknown" }

\* Entry i of the table matches the string: its pattern is a substring of
\* the lower-cased string.
Matching(i, raw_type) == Contains(StrLower(raw_type), type_mapping[i][1])

\* Entry i is the first of the table that matches the string.
FirstMatching(i, raw_type) ==
    Matching(i, raw_type) /\ \A j \in 1..(i - 1) : ~Matching(j, raw_type)

\* C12 as stated: the classifier returns a category for every string: that
\* of the first entry, in table order, whose pattern is a substring of the
\* lower-cased input; condo for an input containing "condominium";
\* single_family for an input that matches no pattern and for the empty
\* input.
C12_ClassifierAsStated ==
    ClassifyDone =>
        LET raw_type == call.args.raw_type IN
        /\ call.result.v \in Categories
        /\ \A i \in DOMAIN type_mapping :
              FirstMatching(i, raw_type) => call.result.v = type_mapping[i][2]
        /\ Matching(4, raw_type) => call.result.v = "condo"
        /\ (\A i \in DOMAIN type_mapping : ~Matching(i, raw_type)) =>
              call.result.v = "single_family"

\* C12, amended: the classifier returns a category for every string: that
\* of the first entry, in table order, whose pattern is a substring of the
\* lower-cased input; so condo for an input that contains "condominium" and
\* none of the three patterns before it; single_family for a non-empty
\* input that matches no pattern; unknown for the empty input.
C12_ClassifierFirstMatch ==
    ClassifyDone =>
        LET raw_type == call.args.raw_type IN
        /\ call.result.v \in Categories
        /\ \A i \in DOMAIN type_mapping :
              FirstMatching(i, raw_type) => call.result.v = type_mapping[i][2]
        /\ (Matching(4, raw_type) /\ \A j \in 1..3 : ~Matching(j, raw_type)) =>
              call.result.v = "condo"
        /\ (raw_type # <<>> /\ \A i \in DOMAIN type_mapping : ~Matching(i, raw_type)) =>
              call.result.v = "single_family"
        /\ raw_type = <<>> => call.result.v = "unknown"

\* C12's case: the empty input is classified, as unknown.
C12_EmptyIsUnknown ==
    ClassifyDone /\ call.args.raw_type = <<>> /\ call.result.v = "unknown"

SafeGetDone == pc = "call" /\ call.fn = "safe_get" /\ call.done
SafeIntDone == pc = "call" /\ call.fn = "safe_int" /\ call.done
SafeFloatDone == pc = "call" /\ call.fn = "safe_float" /\ call.done

\* C13: safe_get returns the default when a path segment is missing, when a
\* non-terminal value is no mapping, or when the terminal value is null or
\* the empty string; safe_int and safe_float return the default on every
\* conversion failure; none of the three raises, whatever the value.
C13_AccessorsNeverRaise ==
    /\ SafeGetDone =>
          /\ call.result.k = "ret"
          /\ LET w == Walk(call.args.obj, call.args.path) IN
             (w.k = "raise" \/ w.v \in {JNull, JStr(<<>>)}) => call.result.v = call.args.default
    /\ SafeIntDone => call.result.k = "ret"
    /\ SafeFloatDone => call.result.k = "ret"

\* C13, what the code does keep: safe_get never raises and returns the
\* default in the three cases; safe_int and safe_float return the default
\* for null, for a dict or a list, and for a string that is no number.
C13_DefaultsReturned ==
    /\ SafeGetDone =>
          /\ call.result.k = "ret"
          /\ LET w == Walk(call.args.obj, call.args.path) IN
             (w.k = "raise" \/ w.v \in {JNull, JStr(<<>>)}) => call.result.v = call.args.default
    /\ (SafeIntDone /\ call.args.value \in {JNull, JEmpty, JList(<<>>), JStr(<<>>), JStr(<<"x">>)})
          => call.result = Ret(JInt(call.args.default))
    /\ (SafeFloatDone /\ call.args.value \in {JNull, JEmpty, JList(<<>>), JStr(<<>>), JStr(<<"x">>)})
          => call.result = Ret(JInt(call.args.default))

\* C13: safe_int was called on an infinite float and raised.
C13_InfiniteFloatRaised == SafeIntDone /\ call.args.value = JInf /\ call.result = Raise

FeaturesDone == pc = "call" /\ call.fn = "features" /\ call.done
WallTags == {"Brick Exterior", "Stone Exterior", "Vinyl Siding"}

\* The wall type of a well-formed building, lower-cased; <<>> when it has none.
WallTypeOf(building) ==
    LET walltype == DictGet(DictGet(building, "construction", JEmpty), "walltype", JNull)
    IN  IF Truthy(walltype) THEN StrLower(walltype.s) ELSE <<>>

\* C14: extract_property_features never raises and returns between one and
\* five tags, none repeated: at most one wall-material tag, that of the
\* first of brick, stone, vinyl the wall type names; the two default tags
\* when the building gives no signal; the single fallback tag when the
\* extraction fails inside.
C14_FeatureTags ==
    FeaturesDone =>
        /\ call.result.k = "ret"
        /\ LET features == call.result.v
               building == call.args.building
           IN  /\ Len(features) \in 1..5
               /\ \A i, j \in DOMAIN features : i # j => features[i] # features[j]
               /\ Cardinality({i \in DOMAIN features : features[i] \in WallTags}) <= 1
               /\ features_raises(building) => features = <<"Property Features Available">>
               /\ ~features_raises(building) =>
                     LET wall == IF ~Truthy(building) THEN <<>> ELSE WallTypeOf(building)
                         brick == Contains(wall, <<"b","r","i","c","k">>)
                         stone == Contains(wall, <<"s","t","o","n","e">>)
                         vinyl == Contains(wall, <<"v","i","n","y","l">>)
                         rest == {"Fireplace", "Multiple Bathrooms"}
                     IN  /\ brick => features[1] = "Brick Exterior"
                         /\ (~brick /\ stone) => features[1] = "Stone Exterior"
                         /\ (~brick /\ ~stone /\ vinyl) => features[1] = "Vinyl Siding"
                         /\ (~brick /\ ~stone /\ ~vinyl) =>
                               \A i \in DOMAIN features : features[i] \notin WallTags
                         /\ (\A i \in DOMAIN features : features[i] \notin WallTags \cup rest)
                               => features = <<"Updated Interior", "Modern Amenities">>

\* C14: a wall type naming two materials gave the tag of the first in the
\* order brick, stone, vinyl, with the other two tags after it.
C14_TwoMaterials ==
    /\ FeaturesDone
    /\ call.args.building.t = "map"
    /\ ~features_raises(call.args.building)
    /\ WallTypeOf(call.args.building) = <<"v","i","n","y","l","/","b","r","i","c","k">>
    /\ call.result.v = <<"Brick Exterior", "Fireplace", "Multiple Bathrooms">>

\* C14: a building whose rooms carry a null count of full baths made the
\* extraction fail inside, and the single fallback tag came back.
C14_FallbackTag ==
    /\ FeaturesDone
    /\ call.args.building.t = "map"
    /\ DictGet(call.args.building, "rooms", JEmpty) = JMap([bathsfull |-> JNull])
    /\ call.result.v = <<"Property Features Available">>

\* The raw records the search normalizes: all_properties[:limit].
Batch == Slice(all_properties, request.limit)

\* The raw record yields a record whose address is not empty.
YieldsAddress(prop) ==
    \E slack \in Slacks : passes_gate(normalize_property_with_logging(prop, slack))

\* C15: every record the search returns has an address that is not empty;
\* a raw record whose normalization gives an empty or absent address, or
\* no record, is dropped, and the records after and before it are still
\* processed: each raw record of the batch that normalizes to a record
\* with an address is returned.
C15_ValidityGate ==
    SearchDone =>
        /\ response.k = "list" => \A j \in DOMAIN response.v : Truthy(response.v[j].address)
        /\ \A i \in DOMAIN Batch :
              YieldsAddress(Batch[i]) =>
                 /\ response.k = "list"
                 /\ \E slack \in Slacks, j \in DOMAIN response.v :
                        Returned(response.v[j]) = normalize_property_with_logging(Batch[i], slack)

\* C15, what the code does keep: a returned list holds records with an
\* address only, and exactly those of the batch that normalize to one.
C15_GateWhenReturned ==
    (SearchDone /\ response.k = "list") =>
        /\ \A j \in DOMAIN response.v : Truthy(response.v[j].address)
        /\ Len(response.v) = Cardinality({i \in DOMAIN Batch : YieldsAddress(Batch[i])})

\* C15: a batch held a record with an address and a record that is no
\* dict, and the search answered HTTP 500.
C15_BatchAborted ==
    /\ SearchDone
    /\ \E i, j \in DOMAIN Batch : YieldsAddress(Batch[i]) /\ Batch[j] = StringRecord
    /\ response = Http500

\* summary.propertyType of the raw record of the call, when the record and
\* its summary are dicts and the type is a string; JNull otherwise.
RawTypeOf(raw) ==
    IF IsDict(raw) /\ IsDict(DictGet(raw, "summary", JNull))
          /\ DictGet(DictGet(raw, "summary", JNull), "propertyType", JNull).t = "str"
    THEN DictGet(DictGet(raw, "summary", JNull), "propertyType", JNull)
    ELSE JNull

\* C16: the normalizer classifies the property type with
\* normalize_property_type: for every raw type string, the property_type of
\* the record normalize returns is the classifier's result on that string.
C16_NormalizerUsesClassifier ==
    (NormalizeDone /\ call.result.k = "dict" /\ RawTypeOf(call.raw) # JNull) =>
        call.result.v.property_type = normalize_property_type(RawTypeOf(call.raw).s)

\* C16: a record of type "Duplex" was normalized to a single_family
\* record, where the classifier gives multi_family.
C16_DuplexSingleFamily ==
    /\ NormalizeDone
    /\ call.result.k = "dict"
    /\ RawTypeOf(call.raw) = JStr(<<"D","u","p","l","e","x">>)
    /\ normalize_property_type(RawTypeOf(call.raw).s) = "multi_family"
    /\ call.result.v.property_type = "single_family"

\* base_value * multiplier of the call, as the exact product.
ProductOf(args) ==
    adjusted_value(args.bedrooms, args.bathrooms, args.square_feet, args.year_built,
                   args.property_type, args.city, args.state)

\* The integers nearest to the exact product v: one, or two at a tie.
Nearest(v) ==
    IF 2 * v.f < FracDen THEN {v.i}
    ELSE IF 2 * v.f > FracDen THEN {v.i + 1}
    ELSE {v.i, v.i + 1}

\* C17: for every input that does not take the fallback path, the final
\* price is the base value times the compounded adjustments, rounded to
\* the nearest integer and then clamped to [100000, 2000000].
C17_RoundedThenClamped ==
    (EstimateDone /\ ~estimate_raises(call.args.city, call.args.state)) =>
        \E n \in Nearest(ProductOf(call.args)) : call.result = Ret(clamp_price(n))

\* C17: a product within the bounds whose fraction is above one half came
\* back truncated, one below the nearest integer.
C17_Truncated ==
    /\ EstimateDone
    /\ ~estimate_raises(call.args.city, call.args.state)
    /\ 2 * ProductOf(call.args).f > FracDen
    /\ ProductOf(call.args).i > MinPrice
    /\ ProductOf(call.args).i < MaxPrice - 1
    /\ call.result = Ret(ProductOf(call.args).i)

\* The list is the lists the tasks returned, one after the other in task
\* order: the k-th record of task i stands after all records of the tasks
\* before i.
InTaskOrder(list, task_seq) ==
    /\ Len(list) = ReturnedCount(task_seq)
    /\ \A i \in DOMAIN task_seq : \A k \in 1..RecordCount(task_seq[i]) :
          list[ReturnedCount(SubSeq(task_seq, 1, i - 1)) + k] = task_seq[i].result.l[k]

\* C18: the search aggregates only once every fetch has completed, and the
\* aggregated raw list is the lists of the fetches in the order of their
\* ZIP codes, whatever the order in which the fetches completed; the
\* answer is that of this list cut to limit.
C18_AggregationInOrder ==
    [][(pc = "gathering" /\ pc' = "done") =>
          /\ \A i \in DOMAIN tasks : tasks[i].pc = "done"
          /\ tasks' = tasks
          /\ \A i \in DOMAIN tasks : tasks[i].zip_code = fetched_zip_codes(resolve_zip_codes(request.city))[i]
          /\ InTaskOrder(all_properties', tasks)
          /\ \E slack_of \in [Range(Slice(all_properties', request.limit)) -> Slacks] :
                response' = search_response(all_properties', request.limit, slack_of)]_vars

\* C18: three fetches returned three different records, and the
\* aggregated list holds them in the order of the ZIP codes.
C18_ThreeListsInOrder ==
    /\ SearchDone
    /\ Len(tasks) = 3
    /\ \A i \in DOMAIN tasks : RecordCount(tasks[i]) = 1
    /\ tasks[1].result.l[1] = NullTypeRecord
    /\ tasks[2].result.l[1] = GoodRecord
    /\ tasks[3].result.l[1] = NoAddressRecord
    /\ all_properties = <<NullTypeRecord, GoodRecord, NoAddressRecord>>

\* C19: every value get_property_details returns without error is a
\* record of the canonical shape, never None: also when the requested id
\* matches a scanned record whose normalization fails.
C19_DetailsReturnsRecord ==
    (DetailsDone /\ response # Http500) =>
        (response.k = "dict" /\ DOMAIN response.v = CanonicalSchema)

\* C19, what the code does keep: a record that is returned has the
\* canonical shape.
C19_ShapeWhenRecord ==
    (DetailsDone /\ response.k = "dict") => DOMAIN response.v = CanonicalSchema

\* C19: the direct lookup found nothing, a scanned record carried the
\* requested id, its normalization failed, and the call returned None.
C19_NoneReturned ==
    /\ DetailsDone
    /\ Len(scanned) >= 2
    /\ \E n \in DOMAIN RecordsOf(scanned[Len(scanned)]) :
          /\ Matches(RecordsOf(scanned[Len(scanned)])[n], request.property_id)
          /\ \A slack \in Slacks :
                normalize_property_with_logging(RecordsOf(scanned[Len(scanned)])[n], slack)
                   = ReturnedNone
    /\ response = ReturnedNone

====
